---- MODULE Spec2Model ----
(***************************************************************************)
(* Medical robotics data platform: the ETL from the operational store     *)
(* (RDS) and the raw telemetry bucket (S3) into the warehouse (Redshift). *)
(*                                                                         *)
(* Tables are sets of rows (records).  Warehouse tables whose rows carry   *)
(* an IDENTITY surrogate key are sets; staged batches and the telemetry    *)
(* fact table, which can hold equal rows, are sequences.  SQL NULL is a    *)
(* sentinel per column type and every SQL comparison is three-valued.      *)
(* Dates are day numbers; a timestamp of the operational store is modelled *)
(* by its day.                                                             *)
(***************************************************************************)
EXTENDS Integers, Sequences, FiniteSets, TLC

\* ---------------------------------------------------------------- bounds
\* Days the clock can reach (CURRENT_DATE ranges over 1..MaxDay).
MaxDay == 2
\* Days in a model year (AGE(...) counts whole years).
YearLen == 2
\* Cap on the rows of one warehouse table; a load that would exceed it is not started.
MaxRows == 4
\* Records in one raw telemetry file.
MaxRecs == 2
\* Object keys of the raw bucket are numbered 0..BucketKeys in listing order.
BucketKeys == 1002

\* ------------------------------------------------------------- SQL NULL
NULL == "NULL"
\* NULL of a numeric or date column, and of a surrogate key column.
NullNum == -1
NullKey == 0

\* Three-valued logic: "T", "F", "U" (unknown).
Eq3(a, b, null) == IF a = null \/ b = null THEN "U" ELSE IF a = b THEN "T" ELSE "F"
Not3(p) == IF p = "T" THEN "F" ELSE IF p = "F" THEN "T" ELSE "U"
And3(p, q) == IF p = "F" \/ q = "F" THEN "F" ELSE IF p = "T" /\ q = "T" THEN "T" ELSE "U"
\* OR over a set of three-valued results (FALSE on the empty set).
Any3(S) == IF "T" \in S THEN "T" ELSE IF "U" \in S THEN "U" ELSE "F"

\* ------------------------------------------------------------- helpers
Range(s) == {s[i] : i \in DOMAIN s}
Min(S) == CHOOSE x \in S : \A y \in S : x <= y

RECURSIVE SetToSeq(_)
\* The rows of a result set in the order the cursor returns them.
SetToSeq(S) == IF S = {} THEN <<>>
               ELSE LET x == CHOOSE y \in S : TRUE IN <<x>> \o SetToSeq(S \ {x})

\* ------------------------------------------------------------- domains
ProcIds == {"P1", "P2"}
SurgeonIds == {"S1", "S2"}
SurgeonNames == {"A", "B", NULL}
RobotIds == {"R1", "R2"}
FacilityIds == {"F1"}
Statuses == {"scheduled", "completed"}
Days == 1..MaxDay

VARIABLES
  today,                    \* CURRENT_DATE / datetime.now()
  surgical_procedures,      \* operational store
  surgical_robots,          \* operational store
  dim_surgeons,             \* warehouse
  dim_robots,               \* warehouse
  dim_facilities,           \* warehouse, not written by this program
  fact_procedures,          \* warehouse
  fact_procedure_telemetry, \* warehouse
  raw_bucket,               \* S3 raw bucket: the objects [key, body]
  last,                     \* what the handler that ran last staged and returned
  run,                      \* the lambda_handler invocation: its position and its results
  load                      \* the load operation lambda_handler is in: its position,
                            \* its connections, its open transaction

vars == <<today, surgical_procedures, surgical_robots, dim_surgeons, dim_robots,
          dim_facilities, fact_procedures, fact_procedure_telemetry, raw_bucket, last,
          run, load>>

\* No handler has returned since the stores last changed from outside.
\* rejected is the rejection counter of a telemetry batch: no statement of
\* process_telemetry_files or transform_telemetry_record assigns one, so it
\* keeps this value.
Idle == [op |-> "none", status |-> "none", stage |-> "none", rowcount |-> 0,
         staged |-> <<>>, input |-> <<>>, files_processed |-> 0, rejected |-> 0,
         inserted |-> 0, files_read |-> <<>>]

\* What a load returned (rowcount) or where it raised (stage), and what it staged.
Result(op, status, stage, rowcount, staged) ==
  [Idle EXCEPT !.op = op, !.status = status, !.stage = stage, !.rowcount = rowcount,
               !.staged = staged]

\* ------------------------------------------------------ staged CSV blob
\* csv.DictWriter writes None as the empty field; COPY ... EMPTYASNULL reads
\* the empty field (of a missing value or of the empty string) as NULL.
CsvStr(v) == IF v = NULL \/ v = "" THEN <<>> ELSE <<v>>
CsvNum(v, null) == IF v = null THEN <<>> ELSE <<v>>
CopyStr(f) == IF f = <<>> THEN NULL ELSE f[1]
CopyNum(f, null) == IF f = <<>> THEN null ELSE f[1]

\* Whole years from day d to day cur (EXTRACT(YEAR FROM AGE(cur, d))).
YearsBetween(cur, d) == IF cur >= d THEN (cur - d) \div YearLen ELSE -((d - cur) \div YearLen)

\* The rank of pair q among the pairs P, in lexicographic order.
PairRank(P, q) == Cardinality({p \in P : p[1] < q[1] \/ (p[1] = q[1] /\ p[2] < q[2])})

MaxOf(S) == IF S = {} THEN 0 ELSE CHOOSE k \in S : \A x \in S : x <= k

\* ------------------------------------------------------- dim_surgeons
\* The extraction query of load_dimension_surgeons.
ExtractSurgeons(procs, cur) ==
  LET src == {p \in procs : p.surgeon_id # NULL}
      groups == {<<p.surgeon_id, p.surgeon_name>> : p \in src}
      first(g) == Min({p.start_time : p \in {q \in src : <<q.surgeon_id, q.surgeon_name>> = g}})
  IN SetToSeq({[surgeon_id |-> g[1],
                surgeon_name |-> g[2],
                specialization |-> "General Surgery",
                years_experience |-> YearsBetween(cur, first(g)),
                certification_level |-> "Board Certified",
                effective_date |-> first(g)] : g \in groups})

\* export_to_s3_csv, then COPY staging_surgeons: the staged rows as the temp table holds them.
CsvSurgeon(r) ==
  [surgeon_id |-> CsvStr(r.surgeon_id), surgeon_name |-> CsvStr(r.surgeon_name),
   specialization |-> CsvStr(r.specialization),
   years_experience |-> CsvNum(r.years_experience, NullNum),
   certification_level |-> CsvStr(r.certification_level),
   effective_date |-> CsvNum(r.effective_date, NullNum)]

CopySurgeon(l) ==
  [surgeon_id |-> CopyStr(l.surgeon_id), surgeon_name |-> CopyStr(l.surgeon_name),
   specialization |-> CopyStr(l.specialization),
   years_experience |-> CopyNum(l.years_experience, NullNum),
   certification_level |-> CopyStr(l.certification_level),
   effective_date |-> CopyNum(l.effective_date, NullNum)]

StageSurgeons(data) == [i \in DOMAIN data |-> CopySurgeon(CsvSurgeon(data[i]))]

\* (a.surgeon_name, a.specialization) = (b.surgeon_name, b.specialization)
SurgeonAttrsEq3(a, b) ==
  And3(Eq3(a.surgeon_name, b.surgeon_name, NULL), Eq3(a.specialization, b.specialization, NULL))

\* The row d of dim_surgeons is hit by the WHERE of the expiring UPDATE.
SurgeonExpires(d, staging) ==
  /\ d.is_current
  /\ Any3({Eq3(d.surgeon_id, s.surgeon_id, NULL) : s \in Range(staging)}) = "T"
  /\ Not3(Any3({SurgeonAttrsEq3(d, s) : s \in Range(staging)})) = "T"

\* UPDATE dim_surgeons SET expiration_date = CURRENT_DATE - 1, is_current = FALSE WHERE ...
ExpireSurgeons(dim, staging, cur) ==
  {IF SurgeonExpires(d, staging)
     THEN [d EXCEPT !.expiration_date = cur - 1, !.is_current = FALSE]
     ELSE d : d \in dim}

\* The (staged row, joined current row) pairs the INSERT ... SELECT keeps:
\* <<i, 0>> when staged row i joins no current row, <<i, k>> when it joins the
\* current row of surrogate key k and the attributes differ.
SurgeonInsertPairs(dim, staging) ==
  LET joined(i) == {d \in dim : Eq3(staging[i].surgeon_id, d.surgeon_id, NULL) = "T" /\ d.is_current}
      changed(i) == {d \in joined(i) : Not3(SurgeonAttrsEq3(d, staging[i])) = "T"}
  IN {<<i, NullKey>> : i \in {j \in DOMAIN staging : joined(j) = {}}}
     \cup UNION {{<<i, d.surgeon_key>> : d \in changed(i)} : i \in DOMAIN staging}

\* INSERT INTO dim_surgeons (...) SELECT ... : one new current row per kept pair.
InsertSurgeons(dim, staging) ==
  LET pairs == SurgeonInsertPairs(dim, staging)
      base == MaxOf({d.surgeon_key : d \in dim})
  IN dim \cup {[surgeon_key |-> base + 1 + PairRank(pairs, q),
                surgeon_id |-> staging[q[1]].surgeon_id,
                surgeon_name |-> staging[q[1]].surgeon_name,
                specialization |-> staging[q[1]].specialization,
                years_experience |-> staging[q[1]].years_experience,
                certification_level |-> staging[q[1]].certification_level,
                effective_date |-> staging[q[1]].effective_date,
                expiration_date |-> NullNum,
                is_current |-> TRUE] : q \in pairs}

\* The two statements of the SCD2 merge, run in order in one transaction.
MergeSurgeons(dim, staging, cur) == InsertSurgeons(ExpireSurgeons(dim, staging, cur), staging)

\* --------------------------------------------------------- dim_robots
\* Of the columns the robot load passes through unchanged from surgical_robots
\* (robot_serial_number, robot_model, manufacturer, software_version,
\* hardware_revision, status, last_maintenance_date) the model keeps
\* software_version; total_operating_hours, an aggregate like
\* total_procedures_count, is left out with duration_minutes.

\* The extraction query of load_dimension_robots.
ExtractRobots(robots, procs) ==
  SetToSeq({[robot_id |-> r.robot_id,
             facility_id |-> r.facility_id,
             install_date |-> r.install_date,
             software_version |-> r.software_version,
             total_procedures_count |->
               Cardinality({p \in procs : Eq3(r.robot_id, p.robot_id, NULL) = "T"}),
             effective_date |-> r.install_date] : r \in robots})

\* export_to_s3_csv, then COPY staging_robots.
CsvRobot(r) ==
  [robot_id |-> CsvStr(r.robot_id), facility_id |-> CsvStr(r.facility_id),
   install_date |-> CsvNum(r.install_date, NullNum),
   software_version |-> CsvStr(r.software_version),
   total_procedures_count |-> CsvNum(r.total_procedures_count, NullNum),
   effective_date |-> CsvNum(r.effective_date, NullNum)]

CopyRobot(l) ==
  [robot_id |-> CopyStr(l.robot_id), facility_id |-> CopyStr(l.facility_id),
   install_date |-> CopyNum(l.install_date, NullNum),
   software_version |-> CopyStr(l.software_version),
   total_procedures_count |-> CopyNum(l.total_procedures_count, NullNum),
   effective_date |-> CopyNum(l.effective_date, NullNum)]

StageRobots(data) == [i \in DOMAIN data |-> CopyRobot(CsvRobot(data[i]))]

\* The WHERE of the UPDATE without its "is_current = TRUE".
RobotExpiresAnyRow(d, staging) ==
  Any3({Eq3(d.robot_id, s.robot_id, NULL) : s \in Range(staging)}) = "T"

\* The row d of dim_robots is hit by the WHERE of the expiring UPDATE.
RobotExpires(d, staging) ==
  /\ d.is_current
  /\ Any3({Eq3(d.robot_id, s.robot_id, NULL) : s \in Range(staging)}) = "T"

\* The UPDATE without its "is_current = FALSE".
ExpireRobotsKeepsCurrent(dim, staging, cur) ==
  {IF RobotExpires(d, staging) THEN [d EXCEPT !.expiration_date = cur - 1] ELSE d : d \in dim}

\* UPDATE dim_robots SET expiration_date = CURRENT_DATE - 1, is_current = FALSE WHERE ...
ExpireRobots(dim, staging, cur) ==
  {IF RobotExpires(d, staging)
     THEN [d EXCEPT !.expiration_date = cur - 1, !.is_current = FALSE]
     ELSE d : d \in dim}

\* staging_robots s LEFT JOIN dim_facilities f ON s.facility_id = f.facility_id
\* AND f.is_current: <<i, k>> for every current facility row k staged row i
\* joins, <<i, 0>> when it joins none.
RobotInsertPairs(staging, facilities) ==
  LET joined(i) == {f \in facilities :
                      Eq3(staging[i].facility_id, f.facility_id, NULL) = "T" /\ f.is_current}
  IN {<<i, NullKey>> : i \in {j \in DOMAIN staging : joined(j) = {}}}
     \cup UNION {{<<i, f.facility_key>> : f \in joined(i)} : i \in DOMAIN staging}

\* INSERT INTO dim_robots (...) SELECT ... : one new current row per joined pair.
InsertRobots(dim, staging, facilities) ==
  LET pairs == RobotInsertPairs(staging, facilities)
      base == MaxOf({d.robot_key : d \in dim})
  IN dim \cup {[robot_key |-> base + 1 + PairRank(pairs, q),
                robot_id |-> staging[q[1]].robot_id,
                facility_key |-> q[2],
                install_date |-> staging[q[1]].install_date,
                software_version |-> staging[q[1]].software_version,
                total_procedures_count |-> staging[q[1]].total_procedures_count,
                effective_date |-> staging[q[1]].effective_date,
                expiration_date |-> NullNum,
                is_current |-> TRUE] : q \in pairs}

MergeRobots(dim, staging, facilities, cur) ==
  InsertRobots(ExpireRobots(dim, staging, cur), staging, facilities)

\* ---------------------------------------------------- fact_procedures
\* Of the measures the fact load passes through unchanged (procedure_type ...
\* status, and the outcome columns of the joined procedure_outcomes row) the
\* model keeps status; the date and time keys are the day of start_time.

\* start_date = yesterday and end_date = today unless given.
WindowStart(start_date, cur) == IF start_date = NullNum THEN cur - 1 ELSE start_date
WindowEnd(end_date, cur) == IF end_date = NullNum THEN cur ELSE end_date

\* The extraction with a window closed at its end (start_time <= end).
ExtractProceduresClosedWindow(procs, robots, start_date, end_date) ==
  LET inwin == {p \in procs : p.start_time >= start_date /\ p.start_time <= end_date}
      joined(p) == {r \in robots : Eq3(p.robot_id, r.robot_id, NULL) = "T"}
      row(p, fid) == [procedure_id |-> p.procedure_id, robot_id |-> p.robot_id,
                      surgeon_id |-> p.surgeon_id, facility_id |-> fid,
                      start_date_key |-> p.start_time, status |-> p.status]
  IN SetToSeq({row(p, NULL) : p \in {q \in inwin : joined(q) = {}}}
              \cup UNION {{row(p, r.facility_id) : r \in joined(p)} : p \in inwin})

\* The extraction query of load_fact_procedures.
ExtractProcedures(procs, robots, start_date, end_date) ==
  LET inwin == {p \in procs : p.start_time >= start_date /\ p.start_time < end_date}
      joined(p) == {r \in robots : Eq3(p.robot_id, r.robot_id, NULL) = "T"}
      row(p, fid) == [procedure_id |-> p.procedure_id, robot_id |-> p.robot_id,
                      surgeon_id |-> p.surgeon_id, facility_id |-> fid,
                      start_date_key |-> p.start_time, status |-> p.status]
  IN SetToSeq({row(p, NULL) : p \in {q \in inwin : joined(q) = {}}}
              \cup UNION {{row(p, r.facility_id) : r \in joined(p)} : p \in inwin})

\* export_to_s3_csv, then COPY staging_procedures.
CsvProcedure(r) ==
  [procedure_id |-> CsvStr(r.procedure_id), robot_id |-> CsvStr(r.robot_id),
   surgeon_id |-> CsvStr(r.surgeon_id), facility_id |-> CsvStr(r.facility_id),
   start_date_key |-> CsvNum(r.start_date_key, NullNum), status |-> CsvStr(r.status)]

CopyProcedure(l) ==
  [procedure_id |-> CopyStr(l.procedure_id), robot_id |-> CopyStr(l.robot_id),
   surgeon_id |-> CopyStr(l.surgeon_id), facility_id |-> CopyStr(l.facility_id),
   start_date_key |-> CopyNum(l.start_date_key, NullNum), status |-> CopyStr(l.status)]

StageProcedures(data) == [i \in DOMAIN data |-> CopyProcedure(CsvProcedure(data[i]))]

\* The INSERT without its WHERE NOT EXISTS.
FactAbsentUnchecked(fact, s) == TRUE

\* WHERE NOT EXISTS (SELECT 1 FROM fact_procedures fp WHERE fp.procedure_id = s.procedure_id)
FactAbsent(fact, s) ==
  ~ \E fp \in fact : Eq3(fp.procedure_id, s.procedure_id, NULL) = "T"

\* The keys of an INNER JOIN: a staged row that joins no current row yields none.
CurrentKeysInnerJoin(keys) == keys

\* The surrogate keys a staged natural key joins: those of the current rows of
\* the dimension with that natural key, or the null key when there is none.
CurrentKeys(keys) == IF keys = {} THEN {NullKey} ELSE keys

\* Lexicographic order on the joined rows <<i, robot_key, surgeon_key, facility_key>>.
JoinLess(p, q) ==
  \E n \in 1..4 : p[n] < q[n] /\ \A m \in 1..(n - 1) : p[m] = q[m]

\* The rows of the SELECT of the fact INSERT: every combination of staged row
\* and joined current dimension rows, for the staged rows not yet in the table.
FactInsertRows(fact, staging, robots, surgeons, facilities) ==
  UNION {
    {<<i, rk, sk, fk>> :
       rk \in CurrentKeys({r.robot_key : r \in
                {d \in robots : Eq3(staging[i].robot_id, d.robot_id, NULL) = "T" /\ d.is_current}}),
       sk \in CurrentKeys({g.surgeon_key : g \in
                {d \in surgeons : Eq3(staging[i].surgeon_id, d.surgeon_id, NULL) = "T" /\ d.is_current}}),
       fk \in CurrentKeys({f.facility_key : f \in
                {d \in facilities : Eq3(staging[i].facility_id, d.facility_id, NULL) = "T" /\ d.is_current}})}
    : i \in {j \in DOMAIN staging : FactAbsent(fact, staging[j])}}

\* INSERT INTO fact_procedures (...) SELECT ... WHERE NOT EXISTS (...)
InsertFacts(fact, staging, robots, surgeons, facilities) ==
  LET rows == FactInsertRows(fact, staging, robots, surgeons, facilities)
      base == MaxOf({f.procedure_key : f \in fact})
  IN fact \cup {[procedure_key |-> base + 1 + Cardinality({p \in rows : JoinLess(p, q)}),
                 procedure_id |-> staging[q[1]].procedure_id,
                 robot_key |-> q[2],
                 surgeon_key |-> q[3],
                 facility_key |-> q[4],
                 start_date_key |-> staging[q[1]].start_date_key,
                 status |-> staging[q[1]].status] : q \in rows}

\* ------------------------------------------------------- telemetry
\* A telemetry record is a JSON object; a missing key and a null value are both
\* NULL here (record.get(...) returns None for either).  Of the optional scalars
\* and nested groups the model keeps arm_position: <<>> when the group is
\* missing, <<[x, y, z]>> when present.
ClockOf ==
  ("2024-03-01 10:30:00" :> [hour |-> 10, minute |-> 30])
  @@ ("2024-03-01 23:59:00" :> [hour |-> 23, minute |-> 59])

\* datetime.fromisoformat(timestamp.replace('Z', '+00:00')) returns a datetime.
ParsesIso(ts) == ts \in DOMAIN ClockOf

\* A transform that fills the columns of an absent arm_position with zero.
TransformTelemetryRecordZeroFill(record) ==
  IF record.timestamp = NULL \/ record.timestamp = "" THEN <<>>
  ELSE IF ~ParsesIso(record.timestamp) THEN <<>>
  ELSE <<[procedure_id |-> record.procedure_id,
          timestamp_key |-> ClockOf[record.timestamp].hour * 10000
                            + ClockOf[record.timestamp].minute * 100,
          sample_timestamp |-> record.timestamp,
          arm_position_x |-> IF record.arm_position = <<>> THEN 0
                             ELSE record.arm_position[1].x,
          arm_position_y |-> IF record.arm_position = <<>> THEN 0
                             ELSE record.arm_position[1].y,
          arm_position_z |-> IF record.arm_position = <<>> THEN 0
                             ELSE record.arm_position[1].z]>>

\* A transform whose time key is hour * 100 + minute.
TransformTelemetryRecordHourMinute(record) ==
  IF record.timestamp = NULL \/ record.timestamp = "" THEN <<>>
  ELSE IF ~ParsesIso(record.timestamp) THEN <<>>
  ELSE <<[procedure_id |-> record.procedure_id,
          timestamp_key |-> ClockOf[record.timestamp].hour * 100
                            + ClockOf[record.timestamp].minute,
          sample_timestamp |-> record.timestamp,
          arm_position_x |-> IF record.arm_position = <<>> THEN NullNum
                             ELSE record.arm_position[1].x,
          arm_position_y |-> IF record.arm_position = <<>> THEN NullNum
                             ELSE record.arm_position[1].y,
          arm_position_z |-> IF record.arm_position = <<>> THEN NullNum
                             ELSE record.arm_position[1].z]>>

\* transform_telemetry_record: <<>> for None, <<row>> for the flat record.
TransformTelemetryRecord(record) ==
  IF record.timestamp = NULL \/ record.timestamp = "" THEN <<>>
  ELSE IF ~ParsesIso(record.timestamp) THEN <<>>
  ELSE <<[procedure_id |-> record.procedure_id,
          timestamp_key |-> ClockOf[record.timestamp].hour * 10000
                            + ClockOf[record.timestamp].minute * 100,
          sample_timestamp |-> record.timestamp,
          arm_position_x |-> IF record.arm_position = <<>> THEN NullNum
                             ELSE record.arm_position[1].x,
          arm_position_y |-> IF record.arm_position = <<>> THEN NullNum
                             ELSE record.arm_position[1].y,
          arm_position_z |-> IF record.arm_position = <<>> THEN NullNum
                             ELSE record.arm_position[1].z]>>

RECURSIVE TransformAll(_)
\* The loop over the records of the files read: the transformed records, in order.
TransformAll(records) ==
  IF records = <<>> THEN <<>>
  ELSE TransformTelemetryRecord(Head(records)) \o TransformAll(Tail(records))

\* list_objects_v2(MaxKeys=1000) lists at most this many keys, in key order.
ListMaxKeys == 1000
\* files[:100]
BatchMaxFiles == 100

RECURSIVE KeysBetween(_, _, _)
\* The keys numbered lo..hi of a set of keys, in ascending order: n is the
\* key's place in the listing order, json tells whether it ends with '.json'.
KeysBetween(keys, lo, hi) ==
  IF keys = {} THEN <<>>
  ELSE IF lo = hi
    THEN SelectSeq(<<[n |-> lo, json |-> TRUE], [n |-> lo, json |-> FALSE]>>,
                   LAMBDA k : k \in keys)
  ELSE LET mid == (lo + hi) \div 2
       IN KeysBetween({k \in keys : k.n <= mid}, lo, mid)
          \o KeysBetween({k \in keys : k.n > mid}, mid + 1, hi)

\* The keys of a set of objects in ascending order.
KeysInOrder(objs) == KeysBetween({o.key : o \in objs}, 0, BucketKeys)

\* A batch that reads every '.json' key listed.
FilesToReadNoBatchCap(bucket) ==
  LET listed == SubSeq(KeysInOrder(bucket), 1, IF Cardinality(bucket) < ListMaxKeys
                                                  THEN Cardinality(bucket) ELSE ListMaxKeys)
  IN SelectSeq(listed, LAMBDA k : k.json)

\* The keys process_telemetry_files reads: the '.json' keys among the first
\* ListMaxKeys listed, cut to the first BatchMaxFiles.
FilesToRead(bucket) ==
  LET listed == SubSeq(KeysInOrder(bucket), 1, IF Cardinality(bucket) < ListMaxKeys
                                                  THEN Cardinality(bucket) ELSE ListMaxKeys)
      files == SelectSeq(listed, LAMBDA k : k.json)
  IN SubSeq(files, 1, IF Len(files) < BatchMaxFiles THEN Len(files) ELSE BatchMaxFiles)

BodyOf(bucket, key) == (CHOOSE o \in bucket : o.key = key).body

RECURSIVE RecordsRead(_, _)
\* The records of the files that download and parse, in the order read; a file
\* that does not parse is skipped whole.
RecordsRead(bucket, files) ==
  IF files = <<>> THEN <<>>
  ELSE IF Len(files) = 1
    THEN LET body == BodyOf(bucket, files[1])
         IN IF body.valid THEN body.records ELSE <<>>
  ELSE LET half == Len(files) \div 2
       IN RecordsRead(bucket, SubSeq(files, 1, half))
          \o RecordsRead(bucket, SubSeq(files, half + 1, Len(files)))

\* files_processed
FilesProcessed(bucket, files) ==
  Cardinality({i \in DOMAIN files : BodyOf(bucket, files[i]).valid})

\* create_telemetry_csv, then COPY staging_telemetry.
CsvTelemetry(r) ==
  [procedure_id |-> CsvStr(r.procedure_id),
   timestamp_key |-> CsvNum(r.timestamp_key, NullNum),
   sample_timestamp |-> CsvStr(r.sample_timestamp),
   arm_position_x |-> CsvNum(r.arm_position_x, NullNum),
   arm_position_y |-> CsvNum(r.arm_position_y, NullNum),
   arm_position_z |-> CsvNum(r.arm_position_z, NullNum)]

CopyTelemetry(l) ==
  [procedure_id |-> CopyStr(l.procedure_id),
   timestamp_key |-> CopyNum(l.timestamp_key, NullNum),
   sample_timestamp |-> CopyStr(l.sample_timestamp),
   arm_position_x |-> CopyNum(l.arm_position_x, NullNum),
   arm_position_y |-> CopyNum(l.arm_position_y, NullNum),
   arm_position_z |-> CopyNum(l.arm_position_z, NullNum)]

StageTelemetry(data) == [i \in DOMAIN data |-> CopyTelemetry(CsvTelemetry(data[i]))]

\* WHERE NOT EXISTS (SELECT 1 FROM fact_procedure_telemetry fpt WHERE
\* fpt.procedure_key = fp.procedure_key AND fpt.sample_timestamp = st.sample_timestamp)
TelemetryAbsent(target, key, st) ==
  ~ \E n \in DOMAIN target :
      /\ target[n].procedure_key = key
      /\ Eq3(target[n].sample_timestamp, st.sample_timestamp, NULL) = "T"

\* staging_telemetry st INNER JOIN fact_procedures fp ON st.procedure_id =
\* fp.procedure_id WHERE NOT EXISTS (...): the pairs <<i, procedure_key>> kept.
TelemetryInsertPairs(target, staging, fact) ==
  UNION {{<<i, fp.procedure_key>> :
            fp \in {f \in fact : /\ Eq3(staging[i].procedure_id, f.procedure_id, NULL) = "T"
                                 /\ TelemetryAbsent(target, f.procedure_key, staging[i])}}
         : i \in DOMAIN staging}

\* INSERT INTO fact_procedure_telemetry (...) SELECT ...
InsertTelemetry(target, staging, fact) ==
  LET pairs == TelemetryInsertPairs(target, staging, fact)
      nth(k) == CHOOSE q \in pairs : PairRank(pairs, q) = k - 1
  IN target \o [k \in 1..Cardinality(pairs) |->
                  [procedure_key |-> nth(k)[2],
                   timestamp_key |-> staging[nth(k)[1]].timestamp_key,
                   sample_timestamp |-> staging[nth(k)[1]].sample_timestamp,
                   arm_position_x |-> staging[nth(k)[1]].arm_position_x,
                   arm_position_y |-> staging[nth(k)[1]].arm_position_y,
                   arm_position_z |-> staging[nth(k)[1]].arm_position_z]]

\* ------------------------------------------------ the operational store
\* POST /ingest/procedure: INSERT ... ON CONFLICT (procedure_id) DO UPDATE SET status
\* (end_time and duration_minutes, updated with it, are not columns of the model).
IngestProcedure(data) ==
  /\ surgical_procedures' =
       IF \E p \in surgical_procedures : p.procedure_id = data.procedure_id
         THEN {IF p.procedure_id = data.procedure_id THEN [p EXCEPT !.status = data.status] ELSE p
                 : p \in surgical_procedures}
         ELSE surgical_procedures \cup {data}
  /\ last' = Idle
  /\ UNCHANGED <<today, surgical_robots, dim_surgeons, dim_robots, dim_facilities,
                 fact_procedures, fact_procedure_telemetry, raw_bucket, run, load>>

\* The owner of the operational store corrects the surgeon_name of a procedure.
RenameSurgeon(pid, name) ==
  /\ \E p \in surgical_procedures : p.procedure_id = pid /\ p.surgeon_name # name
  /\ surgical_procedures' = {IF p.procedure_id = pid THEN [p EXCEPT !.surgeon_name = name] ELSE p
                               : p \in surgical_procedures}
  /\ last' = Idle
  /\ UNCHANGED <<today, surgical_robots, dim_surgeons, dim_robots, dim_facilities,
                 fact_procedures, fact_procedure_telemetry, raw_bucket, run, load>>

\* The owner of the operational store deletes a procedure.
DeleteProcedure(pid) ==
  /\ \E p \in surgical_procedures : p.procedure_id = pid
  /\ surgical_procedures' = {p \in surgical_procedures : p.procedure_id # pid}
  /\ last' = Idle
  /\ UNCHANGED <<today, surgical_robots, dim_surgeons, dim_robots, dim_facilities,
                 fact_procedures, fact_procedure_telemetry, raw_bucket, run, load>>

\* Midnight: CURRENT_DATE moves on.
AdvanceDay ==
  /\ today < MaxDay
  /\ today' = today + 1
  /\ last' = Idle
  /\ UNCHANGED <<surgical_procedures, surgical_robots, dim_surgeons, dim_robots, dim_facilities,
                 fact_procedures, fact_procedure_telemetry, raw_bucket, run, load>>

\* Where a load can fail: acquiring the connections, the extraction, the blob
\* write, the COPY, the merge transaction.
FailStages == {"connect", "extract", "export", "copy", "merge"}

\* --------------------------------------------- load_dimension_surgeons
LoadDimensionSurgeons(fail) ==
  LET surgeons == ExtractSurgeons(surgical_procedures, today)
      staging == StageSurgeons(surgeons)
      merged == MergeSurgeons(dim_surgeons, staging, today)
      inserted == Cardinality(SurgeonInsertPairs(ExpireSurgeons(dim_surgeons, staging, today), staging))
  IN /\ Cardinality(merged) <= MaxRows
     /\ IF fail \in {"connect", "extract"}
          THEN /\ last' = Result("load_dimension_surgeons", "failed", fail, 0, <<>>)
               /\ UNCHANGED dim_surgeons
          ELSE IF surgeons = <<>>
          THEN /\ last' = Result("load_dimension_surgeons", "success", "empty", 0, <<>>)
               /\ UNCHANGED dim_surgeons
          ELSE IF fail \in FailStages
          THEN \* except: rs_conn.rollback(); raise
               /\ last' = Result("load_dimension_surgeons", "failed", fail, 0, staging)
               /\ UNCHANGED dim_surgeons
          ELSE /\ last' = Result("load_dimension_surgeons", "success", "done", inserted, staging)
               /\ dim_surgeons' = merged
     /\ UNCHANGED <<today, surgical_procedures, surgical_robots, dim_robots, dim_facilities,
                    fact_procedures, fact_procedure_telemetry, raw_bucket, run, load>>

\* ----------------------------------------------- load_dimension_robots
\* The owner of the operational store registers a robot (robot_id is its key).
RegisterRobot(r) ==
  /\ \A x \in surgical_robots : x.robot_id # r.robot_id
  /\ surgical_robots' = surgical_robots \cup {r}
  /\ last' = Idle
  /\ UNCHANGED <<today, surgical_procedures, dim_surgeons, dim_robots, dim_facilities,
                 fact_procedures, fact_procedure_telemetry, raw_bucket, run, load>>

\* The owner of the operational store records a software upgrade of a robot.
UpgradeRobot(rid, version) ==
  /\ \E x \in surgical_robots : x.robot_id = rid /\ x.software_version # version
  /\ surgical_robots' = {IF x.robot_id = rid THEN [x EXCEPT !.software_version = version] ELSE x
                           : x \in surgical_robots}
  /\ last' = Idle
  /\ UNCHANGED <<today, surgical_procedures, dim_surgeons, dim_robots, dim_facilities,
                 fact_procedures, fact_procedure_telemetry, raw_bucket, run, load>>

LoadDimensionRobots(fail) ==
  LET robots == ExtractRobots(surgical_robots, surgical_procedures)
      staging == StageRobots(robots)
      merged == MergeRobots(dim_robots, staging, dim_facilities, today)
      inserted == Cardinality(RobotInsertPairs(staging, dim_facilities))
  IN /\ Cardinality(merged) <= MaxRows
     /\ IF fail \in {"connect", "extract"}
          THEN /\ last' = Result("load_dimension_robots", "failed", fail, 0, <<>>)
               /\ UNCHANGED dim_robots
          ELSE IF robots = <<>>
          THEN /\ last' = Result("load_dimension_robots", "success", "empty", 0, <<>>)
               /\ UNCHANGED dim_robots
          ELSE IF fail \in FailStages
          THEN \* except: rs_conn.rollback(); raise
               /\ last' = Result("load_dimension_robots", "failed", fail, 0, staging)
               /\ UNCHANGED dim_robots
          ELSE /\ last' = Result("load_dimension_robots", "success", "done", inserted, staging)
               /\ dim_robots' = merged
     /\ UNCHANGED <<today, surgical_procedures, surgical_robots, dim_surgeons, dim_facilities,
                    fact_procedures, fact_procedure_telemetry, raw_bucket, run, load>>

\* ------------------------------------------------ load_fact_procedures
LoadFactProcedures(start_date, end_date, fail) ==
  LET procedures == ExtractProcedures(surgical_procedures, surgical_robots,
                                      WindowStart(start_date, today), WindowEnd(end_date, today))
      staging == StageProcedures(procedures)
      rows == FactInsertRows(fact_procedures, staging, dim_robots, dim_surgeons, dim_facilities)
      merged == InsertFacts(fact_procedures, staging, dim_robots, dim_surgeons, dim_facilities)
  IN /\ Cardinality(merged) <= MaxRows
     /\ IF fail \in {"connect", "extract"}
          THEN /\ last' = Result("load_fact_procedures", "failed", fail, 0, <<>>)
               /\ UNCHANGED fact_procedures
          ELSE IF procedures = <<>>
          THEN /\ last' = Result("load_fact_procedures", "success", "empty", 0, <<>>)
               /\ UNCHANGED fact_procedures
          ELSE IF fail \in FailStages
          THEN \* except: rs_conn.rollback(); raise
               /\ last' = Result("load_fact_procedures", "failed", fail, 0, staging)
               /\ UNCHANGED fact_procedures
          ELSE /\ last' = Result("load_fact_procedures", "success", "done", Cardinality(rows), staging)
               /\ fact_procedures' = merged
     /\ UNCHANGED <<today, surgical_procedures, surgical_robots, dim_surgeons, dim_robots,
                    dim_facilities, fact_procedure_telemetry, raw_bucket, run, load>>

\* ------------------------------------------------ the raw bucket, the
\* telemetry ETL
\* A producer (POST /ingest/telemetry, a bulk upload) puts an object.
PutRawObject(key, body) ==
  /\ raw_bucket' = {o \in raw_bucket : o.key # key} \cup {[key |-> key, body |-> body]}
  /\ raw_bucket' # raw_bucket
  /\ last' = Idle
  /\ UNCHANGED <<today, surgical_procedures, surgical_robots, dim_surgeons, dim_robots,
                 dim_facilities, fact_procedures, fact_procedure_telemetry, run, load>>

\* A count that reports the rows the INSERT wrote.
RecordsLoadedRowsInserted(telemetry_records, rows_inserted) == rows_inserted

\* return len(telemetry_records): the rowcount load_telemetry_to_redshift
\* returns is dropped by the caller.
RecordsLoaded(telemetry_records, rows_inserted) == Len(telemetry_records)

\* process_telemetry_files, with load_telemetry_to_redshift.
ProcessTelemetryFiles(fail) ==
  LET files == FilesToRead(raw_bucket)
      input == RecordsRead(raw_bucket, files)
      telemetry_records == TransformAll(input)
      staging == StageTelemetry(telemetry_records)
      pairs == TelemetryInsertPairs(fact_procedure_telemetry, staging, fact_procedures)
      merged == InsertTelemetry(fact_procedure_telemetry, staging, fact_procedures)
      ran(status, stage, n) ==
        [Idle EXCEPT !.op = "process_telemetry_files", !.status = status, !.stage = stage,
                     !.rowcount = n, !.staged = telemetry_records, !.input = input,
                     !.files_processed = FilesProcessed(raw_bucket, files),
                     !.files_read = files]
  IN /\ Len(merged) <= MaxRows
     /\ IF files = <<>>
          THEN /\ last' = [Idle EXCEPT !.op = "process_telemetry_files",
                                       !.status = "success", !.stage = "no_files"]
               /\ UNCHANGED fact_procedure_telemetry
          ELSE IF telemetry_records = <<>>
          THEN /\ last' = ran("success", "empty", 0)
               /\ UNCHANGED fact_procedure_telemetry
          ELSE IF fail \in FailStages
          THEN \* load_telemetry_to_redshift: conn.rollback(); raise
               /\ last' = ran("failed", fail, 0)
               /\ UNCHANGED fact_procedure_telemetry
          ELSE /\ last' = [ran("success", "done",
                                RecordsLoaded(telemetry_records, Cardinality(pairs)))
                             EXCEPT !.inserted = Cardinality(pairs)]
               /\ fact_procedure_telemetry' = merged
     /\ UNCHANGED <<today, surgical_procedures, surgical_robots, dim_surgeons, dim_robots,
                    dim_facilities, fact_procedures, raw_bucket, run, load>>

\* ------------------------------------------------------ lambda_handler
\* The entities lambda_handler loads, by the key of results['records_loaded'].
Entities == {"surgeons", "robots", "procedures"}

\* results as lambda_handler builds it; records_loaded is a dict, here a
\* function whose domain is the keys assigned so far.
NoResults == [status |-> "none", etl_type |-> "none", records_loaded |-> <<>>, error |-> "none"]

\* No invocation yet.  returned is what the caller received from `return`
\* (<<>> when nothing was returned); committed records, per entity, the table
\* the load of this invocation committed.
IdleRun == [pc |-> "idle", etl_type |-> "none", start_date |-> NullNum, end_date |-> NullNum,
            results |-> NoResults, returned |-> <<>>, committed |-> <<>>]

\* No load operation yet.  A connection is "none", "open" or "closed"; work is
\* the target table as the open transaction of rs_conn sees it.
NoLoad == [name |-> "none", pc |-> "none", rds_conn |-> "none", rs_conn |-> "none",
           data |-> <<>>, staging |-> <<>>, work |-> {}, rowcount |-> 0, failed_at |-> "none"]

\* An order of calls that starts with the fact load.
NextStageFactsFirst(etl_type, stage) ==
  IF stage = "start" /\ etl_type # "none" THEN "procedures" ELSE "return"

\* An order of calls that treats every etl_type it does not know as 'full'.
NextStageAnyType(etl_type, stage) ==
  IF stage = "start"
    THEN IF etl_type = "procedures" THEN "procedures" ELSE "surgeons"
  ELSE IF stage = "surgeons" THEN "robots"
  ELSE IF stage = "robots"
    THEN IF etl_type = "dimensions" THEN "return" ELSE "procedures"
  ELSE "return"

\* The order of the calls in lambda_handler: the entity called after `stage`
\* ("start" before the first), or "return".
NextStage(etl_type, stage) ==
  IF stage = "start"
    THEN IF etl_type \in {"full", "dimensions"} THEN "surgeons"
         ELSE IF etl_type = "procedures" THEN "procedures" ELSE "return"
  ELSE IF stage = "surgeons" THEN "robots"
  ELSE IF stage = "robots"
    THEN IF etl_type \in {"full", "procedures"} THEN "procedures" ELSE "return"
  ELSE "return"

\* An except that records the failure and goes on with the next call.
FailedContinues(r, stage) ==
  [r EXCEPT !.pc = NextStage(r.etl_type, r.pc), !.results.status = "failed",
            !.results.error = stage]

\* except Exception: results['status'] = 'failed'; results['error'] = str(e); raise
Failed(r, stage) ==
  [r EXCEPT !.pc = "raised", !.results.status = "failed", !.results.error = stage]

\* finally: rds_conn.close(); rs_conn.close()
CloseAll(l) == [l EXCEPT !.rds_conn = "closed", !.rs_conn = "closed"]

\* A rollback that keeps what the open transaction wrote.
AfterRollbackKeepsWork(table, work) == work

\* rs_conn.rollback(): the table after the open transaction is discarded.
AfterRollback(table, work) == table

\* A commit that does not make the transaction durable.
CommitLost(table, work) == table

\* rs_conn.commit(): the table after the open transaction is made durable.
Committed(table, work) == work

\* The warehouse table a load writes.
Target(name) ==
  IF name = "surgeons" THEN dim_surgeons
  ELSE IF name = "robots" THEN dim_robots ELSE fact_procedures

WriteTarget(name, value) ==
  /\ dim_surgeons' = IF name = "surgeons" THEN value ELSE dim_surgeons
  /\ dim_robots' = IF name = "robots" THEN value ELSE dim_robots
  /\ fact_procedures' = IF name = "procedures" THEN value ELSE fact_procedures

\* The extraction query of the load, the staging of its rows, the statements
\* of its merge.
ExtractFor(name) ==
  IF name = "surgeons" THEN ExtractSurgeons(surgical_procedures, today)
  ELSE IF name = "robots" THEN ExtractRobots(surgical_robots, surgical_procedures)
  ELSE ExtractProcedures(surgical_procedures, surgical_robots,
                         WindowStart(run.start_date, today), WindowEnd(run.end_date, today))

StageFor(name, data) ==
  IF name = "surgeons" THEN StageSurgeons(data)
  ELSE IF name = "robots" THEN StageRobots(data) ELSE StageProcedures(data)

ExpireFor(name, work, staging) ==
  IF name = "surgeons" THEN ExpireSurgeons(work, staging, today)
  ELSE ExpireRobots(work, staging, today)

InsertFor(name, work, staging) ==
  IF name = "surgeons" THEN InsertSurgeons(work, staging)
  ELSE IF name = "robots" THEN InsertRobots(work, staging, dim_facilities)
  ELSE InsertFacts(work, staging, dim_robots, dim_surgeons, dim_facilities)

\* rs_cursor.rowcount after the merge: the rows of its last statement.
RowCountFor(name, work, staging) ==
  IF name = "surgeons" THEN Cardinality(SurgeonInsertPairs(work, staging))
  ELSE IF name = "robots" THEN Cardinality(RobotInsertPairs(staging, dim_facilities))
  ELSE Cardinality(FactInsertRows(work, staging, dim_robots, dim_surgeons, dim_facilities))

\* What the steps of lambda_handler leave alone.
RunFrame ==
  UNCHANGED <<today, surgical_procedures, surgical_robots, dim_facilities,
              fact_procedure_telemetry, raw_bucket, last>>

\* The load returns n: finally closes the connections, lambda_handler stores n
\* under the entity's key and goes on.
ReturnFromLoad(n, committed) ==
  /\ load' = CloseAll([load EXCEPT !.pc = "exited", !.rowcount = n])
  /\ run' = [run EXCEPT !.results.records_loaded = (load.name :> n) @@ @,
                        !.pc = NextStage(run.etl_type, load.name),
                        !.committed = IF committed THEN (load.name :> load.work) @@ @ ELSE @]

\* An except that swallows the exception: the load goes on with its merge.
RaiseInTrySwallowed(stage) ==
  /\ load' = [load EXCEPT !.pc = "insert", !.failed_at = stage,
                          !.staging = StageFor(load.name, load.data)]
  /\ UNCHANGED <<run, dim_surgeons, dim_robots, fact_procedures>>

\* A statement inside the try raises: except rolls back and re-raises, finally
\* closes the connections, the except of lambda_handler marks results and re-raises.
RaiseInTry(stage) ==
  /\ WriteTarget(load.name, AfterRollback(Target(load.name), load.work))
  /\ load' = CloseAll([load EXCEPT !.pc = "exited", !.failed_at = stage])
  /\ run' = Failed(run, stage)

\* lambda_handler is invoked.
StartLambdaHandler(etl_type, start_date, end_date) ==
  /\ run.pc \in {"idle", "returned", "raised"}
  /\ run' = [IdleRun EXCEPT !.pc = NextStage(etl_type, "start"), !.etl_type = etl_type,
                            !.start_date = start_date, !.end_date = end_date,
                            !.results = [NoResults EXCEPT !.status = "success",
                                                          !.etl_type = etl_type]]
  /\ load' = NoLoad
  /\ UNCHANGED <<dim_surgeons, dim_robots, fact_procedures>>
  /\ RunFrame

\* rds_conn = get_rds_connection(), the first statement of the load called next.
GetRdsConnection(ok) ==
  /\ run.pc \in Entities
  /\ load.pc \in {"none", "exited"}
  /\ IF ok
       THEN /\ load' = [NoLoad EXCEPT !.name = run.pc, !.pc = "connect_rs", !.rds_conn = "open"]
            /\ UNCHANGED run
       ELSE /\ load' = [NoLoad EXCEPT !.name = run.pc, !.pc = "exited",
                                      !.failed_at = "connect_rds"]
            /\ run' = Failed(run, "connect_rds")
  /\ UNCHANGED <<dim_surgeons, dim_robots, fact_procedures>>
  /\ RunFrame

\* rs_conn = get_redshift_connection(), before the try.
GetRedshiftConnection(ok) ==
  /\ run.pc \in Entities
  /\ load.pc = "connect_rs"
  /\ IF ok
       THEN /\ load' = [load EXCEPT !.pc = "extract", !.rs_conn = "open",
                                    !.work = Target(load.name)]
            /\ UNCHANGED run
       ELSE /\ load' = [load EXCEPT !.pc = "exited", !.failed_at = "connect_rs"]
            /\ run' = Failed(run, "connect_rs")
  /\ UNCHANGED <<dim_surgeons, dim_robots, fact_procedures>>
  /\ RunFrame

\* rds_cursor.execute(...); rds_cursor.fetchall()
ExtractRows(ok) ==
  /\ run.pc \in Entities
  /\ load.pc = "extract"
  /\ IF ok
       THEN /\ load' = [load EXCEPT !.pc = "export", !.data = ExtractFor(load.name)]
            /\ UNCHANGED <<run, dim_surgeons, dim_robots, fact_procedures>>
       ELSE RaiseInTry("extract")
  /\ RunFrame

\* s3_path = export_to_s3_csv(...); if not s3_path: return 0
ExportToS3Csv(ok) ==
  /\ run.pc \in Entities
  /\ load.pc = "export"
  /\ IF load.data = <<>>
       THEN /\ ok
            /\ ReturnFromLoad(0, FALSE)
            /\ UNCHANGED <<dim_surgeons, dim_robots, fact_procedures>>
       ELSE IF ok
       THEN /\ load' = [load EXCEPT !.pc = "copy"]
            /\ UNCHANGED <<run, dim_surgeons, dim_robots, fact_procedures>>
       ELSE RaiseInTry("export")
  /\ RunFrame

\* CREATE TEMP TABLE staging_...; COPY staging_... FROM s3_path
CopyStaging(ok) ==
  /\ run.pc \in Entities
  /\ load.pc = "copy"
  /\ IF ok
       THEN /\ load' = [load EXCEPT !.pc = IF load.name = "procedures" THEN "insert" ELSE "expire",
                                    !.staging = StageFor(load.name, load.data),
                                    !.work = Target(load.name)]
            /\ UNCHANGED <<run, dim_surgeons, dim_robots, fact_procedures>>
       ELSE RaiseInTry("copy")
  /\ RunFrame

\* The UPDATE of the merge, in the open transaction.
ExpireStatement(ok) ==
  /\ run.pc \in Entities
  /\ load.pc = "expire"
  /\ IF ok
       THEN /\ load' = [load EXCEPT !.pc = "insert",
                                    !.work = ExpireFor(load.name, load.work, load.staging)]
            /\ UNCHANGED <<run, dim_surgeons, dim_robots, fact_procedures>>
       ELSE RaiseInTry("expire")
  /\ RunFrame

\* The INSERT ... SELECT of the merge, in the open transaction.
InsertStatement(ok) ==
  /\ run.pc \in Entities
  /\ load.pc = "insert"
  /\ Cardinality(InsertFor(load.name, load.work, load.staging)) <= MaxRows
  /\ IF ok
       THEN /\ load' = [load EXCEPT !.pc = "commit",
                                    !.rowcount = RowCountFor(load.name, load.work, load.staging),
                                    !.work = InsertFor(load.name, load.work, load.staging)]
            /\ UNCHANGED <<run, dim_surgeons, dim_robots, fact_procedures>>
       ELSE RaiseInTry("insert")
  /\ RunFrame

\* row_count = rs_cursor.rowcount; rs_conn.commit(); return row_count
CommitLoad(ok) ==
  /\ run.pc \in Entities
  /\ load.pc = "commit"
  /\ IF ok
       THEN /\ WriteTarget(load.name, Committed(Target(load.name), load.work))
            /\ ReturnFromLoad(load.rowcount, TRUE)
       ELSE RaiseInTry("commit")
  /\ RunFrame

\* return results
ReturnResults ==
  /\ run.pc = "return"
  /\ run' = [run EXCEPT !.pc = "returned", !.returned = <<run.results>>]
  /\ UNCHANGED <<load, dim_surgeons, dim_robots, fact_procedures>>
  /\ RunFrame

\* ------------------------------------------------------ specifications
NoProcedure(pid) == \A p \in surgical_procedures : p.procedure_id # pid

InitEmpty ==
  /\ today = 1
  /\ surgical_procedures = {}
  /\ surgical_robots = {}
  /\ dim_surgeons = {}
  /\ dim_robots = {}
  /\ dim_facilities = {}
  /\ fact_procedures = {}
  /\ fact_procedure_telemetry = <<>>
  /\ raw_bucket = {}
  /\ last = Idle
  /\ run = IdleRun
  /\ load = NoLoad

\* The surgeon dimension: procedures come and change, the load runs.
SurgeonProcedures ==
  [procedure_id : ProcIds, robot_id : {NULL}, surgeon_id : SurgeonIds,
   surgeon_name : SurgeonNames, start_time : {1}, status : {"completed"}]

IngestSurgeonProcedure == \E data \in SurgeonProcedures : IngestProcedure(data)
EditSurgeonName == \E pid \in ProcIds, name \in SurgeonNames : RenameSurgeon(pid, name)
RemoveProcedure == \E pid \in ProcIds : DeleteProcedure(pid)
RunLoadDimensionSurgeons == \E fail \in {"none", "merge"} : LoadDimensionSurgeons(fail)

NextSurgeons ==
  \/ IngestSurgeonProcedure
  \/ EditSurgeonName
  \/ RemoveProcedure
  \/ RunLoadDimensionSurgeons

SpecSurgeons == InitEmpty /\ [][NextSurgeons]_vars

\* The robot dimension: robots are registered and upgraded, procedures are
\* ingested, the day changes, the load runs.  dim_facilities is loaded by
\* another system: any table over FacilityRows.
FacilityRows ==
  {[facility_key |-> 1, facility_id |-> "F1", is_current |-> TRUE],
   [facility_key |-> 2, facility_id |-> "F1", is_current |-> TRUE],
   [facility_key |-> 3, facility_id |-> "F1", is_current |-> FALSE]}

InitRobots ==
  /\ today = 1
  /\ surgical_procedures = {}
  /\ surgical_robots = {}
  /\ dim_surgeons = {}
  /\ dim_robots = {}
  /\ dim_facilities \in SUBSET FacilityRows
  /\ fact_procedures = {}
  /\ fact_procedure_telemetry = <<>>
  /\ raw_bucket = {}
  /\ last = Idle
  /\ run = IdleRun
  /\ load = NoLoad

Robots ==
  [robot_id : RobotIds, facility_id : FacilityIds,
   software_version : {"v1", "v2"}, install_date : {1}]

RobotProcedures ==
  [procedure_id : {"P1"}, robot_id : {"R1"}, surgeon_id : {NULL},
   surgeon_name : {NULL}, start_time : {1}, status : {"completed"}]

RegisterAnyRobot == \E r \in Robots : RegisterRobot(r)
UpgradeAnyRobot == \E rid \in RobotIds, version \in {"v1", "v2"} : UpgradeRobot(rid, version)
IngestRobotProcedure == \E data \in RobotProcedures : IngestProcedure(data)
RunLoadDimensionRobots == \E fail \in {"none", "merge"} : LoadDimensionRobots(fail)

NextRobots ==
  \/ RegisterAnyRobot
  \/ UpgradeAnyRobot
  \/ IngestRobotProcedure
  \/ AdvanceDay
  \/ RunLoadDimensionRobots

SpecRobots == InitRobots /\ [][NextRobots]_vars

\* The procedure facts: procedures of one surgeon are ingested under either
\* name, the dimensions and the facts are loaded over any window.
InitFacts ==
  /\ today = 1
  /\ surgical_procedures = {}
  /\ surgical_robots = {[robot_id |-> "R1", facility_id |-> "F1",
                         software_version |-> "v1", install_date |-> 1]}
  /\ dim_surgeons = {}
  /\ dim_robots = {}
  /\ dim_facilities = {[facility_key |-> 1, facility_id |-> "F1", is_current |-> TRUE]}
  /\ fact_procedures = {}
  /\ fact_procedure_telemetry = <<>>
  /\ raw_bucket = {}
  /\ last = Idle
  /\ run = IdleRun
  /\ load = NoLoad

FactProcedures ==
  [procedure_id : ProcIds, robot_id : {"R1"}, surgeon_id : {"S1"},
   surgeon_name : {"A", "B"}, start_time : Days, status : Statuses]

IngestFactProcedure == \E data \in FactProcedures : IngestProcedure(data)
RunLoadFactProcedures ==
  \E start_date \in Days \cup {NullNum}, end_date \in Days \cup {NullNum} :
    LoadFactProcedures(start_date, end_date, "none")
RunLoadSurgeons == LoadDimensionSurgeons("none")

NextFacts ==
  \/ IngestFactProcedure
  \/ AdvanceDay
  \/ RunLoadSurgeons
  \/ RunLoadFactProcedures

SpecFacts == InitFacts /\ [][NextFacts]_vars

\* The telemetry ETL: the procedure P1 is ingested and loaded, producers put
\* objects under telemetry/, the ETL runs.
TelemetrySamples ==
  {[procedure_id |-> "P1", timestamp |-> "2024-03-01 10:30:00",
    arm_position |-> <<[x |-> 1, y |-> 2, z |-> 3]>>],
   [procedure_id |-> "P1", timestamp |-> "2024-03-01 23:59:00", arm_position |-> <<>>],
   [procedure_id |-> "P1", timestamp |-> NULL, arm_position |-> <<>>],
   [procedure_id |-> "P1", timestamp |-> "yesterday", arm_position |-> <<>>],
   [procedure_id |-> NULL, timestamp |-> "2024-03-01 10:30:00", arm_position |-> <<>>]}

RECURSIVE SeqsUpTo(_, _)
\* The sequences over S of length at most n.
SeqsUpTo(S, n) ==
  IF n = 0 THEN {<<>>}
  ELSE SeqsUpTo(S, n - 1) \cup {Append(q, x) : q \in {r \in SeqsUpTo(S, n - 1) : Len(r) = n - 1}, x \in S}

\* A body that is no JSON, a single JSON object, an array of objects.
RawBodies ==
  {[valid |-> FALSE, array |-> FALSE, records |-> <<>>]}
  \cup {[valid |-> TRUE, array |-> FALSE, records |-> <<r>>] : r \in TelemetrySamples}
  \cup {[valid |-> TRUE, array |-> TRUE, records |-> q] : q \in SeqsUpTo(TelemetrySamples, MaxRecs)}

\* What the producers put: anything under the first key, one good record under
\* the second, and an object that is no '.json' file.
RawObjects ==
  {[key |-> [n |-> 1, json |-> TRUE], body |-> b] : b \in RawBodies}
  \cup {[key |-> [n |-> 2, json |-> TRUE],
         body |-> [valid |-> TRUE, array |-> FALSE,
                   records |-> <<[procedure_id |-> "P1", timestamp |-> "2024-03-01 10:30:00",
                                  arm_position |-> <<>>]>>]],
        [key |-> [n |-> 3, json |-> FALSE],
         body |-> [valid |-> FALSE, array |-> FALSE, records |-> <<>>]]}

PutTelemetryObject == \E o \in RawObjects : PutRawObject(o.key, o.body)

TelemetryProcedures ==
  [procedure_id : {"P1"}, robot_id : {NULL}, surgeon_id : {NULL},
   surgeon_name : {NULL}, start_time : {1}, status : {"completed"}]

IngestTelemetryProcedure == \E data \in TelemetryProcedures : IngestProcedure(data)
RunLoadFacts == LoadFactProcedures(1, 2, "none")
RunProcessTelemetryFiles == \E fail \in {"none", "copy"} : ProcessTelemetryFiles(fail)

NextTelemetry ==
  \/ PutTelemetryObject
  \/ IngestTelemetryProcedure
  \/ RunLoadFacts
  \/ RunProcessTelemetryFiles

SpecTelemetry == InitEmpty /\ [][NextTelemetry]_vars

\* The listing of a large raw bucket.  It holds the keys 2..BucketKeys, every
\* body the empty array; the keys 12, 22, ..., 992 and 1002 end with '.json':
\* 99 of them among the first ListMaxKeys keys and one past them.  Producers
\* put files with one record that carries the number of its key as
\* arm_position.x: under the new first keys 0 and 1, which move the listing
\* and bring its '.json' keys to 101, under the last '.json' key listed, and
\* under the '.json' key past the listing.
EmptyArray == [valid |-> TRUE, array |-> TRUE, records |-> <<>>]

ListingBucket ==
  {[key |-> [n |-> k, json |-> (k % 10 = 2 /\ k >= 12)], body |-> EmptyArray]
     : k \in 2..BucketKeys}

ListingStamp ==
  (0 :> "2024-03-01 23:59:00") @@ (1 :> "2024-03-01 10:30:00")
  @@ (992 :> "2024-03-01 10:30:00") @@ (1002 :> "2024-03-01 23:59:00")

ListingObjects ==
  {[key |-> [n |-> k, json |-> TRUE],
    body |-> [valid |-> TRUE, array |-> FALSE,
              records |-> <<[procedure_id |-> "P1", timestamp |-> ListingStamp[k],
                             arm_position |-> <<[x |-> k, y |-> 0, z |-> 0]>>]>>]]
     : k \in DOMAIN ListingStamp}

InitListing ==
  /\ today = 1
  /\ surgical_procedures = {}
  /\ surgical_robots = {}
  /\ dim_surgeons = {}
  /\ dim_robots = {}
  /\ dim_facilities = {}
  /\ fact_procedures = {}
  /\ fact_procedure_telemetry = <<>>
  /\ raw_bucket = ListingBucket
  /\ last = Idle
  /\ run = IdleRun
  /\ load = NoLoad

PutListingObject == \E o \in ListingObjects : PutRawObject(o.key, o.body)
IngestListingProcedure == \E data \in TelemetryProcedures : IngestProcedure(data)
RunLoadListingFacts == LoadFactProcedures(1, 2, "none")
RunListingFiles == \E fail \in {"none", "copy"} : ProcessTelemetryFiles(fail)

NextListing ==
  \/ PutListingObject
  \/ IngestListingProcedure
  \/ RunLoadListingFacts
  \/ RunListingFiles

SpecListing == InitListing /\ [][NextListing]_vars

\* lambda_handler, step by step: a robot is registered and its facility loaded,
\* procedures of one surgeon are ingested at any moment, the handler is invoked
\* with any etl_type, over the window of day 1 or the default window, and any
\* of its steps can fail.
RunProcedures ==
  [procedure_id : ProcIds, robot_id : {"R1"}, surgeon_id : {"S1"},
   surgeon_name : {"A"}, start_time : {1}, status : {"completed"}]

EtlTypes == {"full", "dimensions", "procedures", "none"}

IngestRunProcedure == \E data \in RunProcedures : IngestProcedure(data)
InvokeLambdaHandler ==
  \E etl_type \in EtlTypes, window \in {<<1, 2>>, <<NullNum, NullNum>>} :
    StartLambdaHandler(etl_type, window[1], window[2])

NextRun ==
  \/ IngestRunProcedure
  \/ InvokeLambdaHandler
  \/ \E ok \in BOOLEAN : GetRdsConnection(ok)
  \/ \E ok \in BOOLEAN : GetRedshiftConnection(ok)
  \/ \E ok \in BOOLEAN : ExtractRows(ok)
  \/ \E ok \in BOOLEAN : ExportToS3Csv(ok)
  \/ \E ok \in BOOLEAN : CopyStaging(ok)
  \/ \E ok \in BOOLEAN : ExpireStatement(ok)
  \/ \E ok \in BOOLEAN : InsertStatement(ok)
  \/ \E ok \in BOOLEAN : CommitLoad(ok)
  \/ ReturnResults

SpecRun == InitFacts /\ [][NextRun]_vars

\* The surgeon dimension over time: procedures that started the day before the
\* first day are ingested for either surgeon under either name, names are
\* corrected, the day changes, the load runs.
AttrProcedures ==
  [procedure_id : ProcIds, robot_id : {NULL}, surgeon_id : SurgeonIds,
   surgeon_name : {"A", "B"}, start_time : {0}, status : {"completed"}]

IngestAttrProcedure == \E data \in AttrProcedures : IngestProcedure(data)
EditAttrSurgeonName == \E pid \in ProcIds, name \in {"A", "B"} : RenameSurgeon(pid, name)
RunLoadSurgeonAttrs == LoadDimensionSurgeons("none")

NextSurgeonAttrs ==
  \/ IngestAttrProcedure
  \/ EditAttrSurgeonName
  \/ AdvanceDay
  \/ RunLoadSurgeonAttrs

SpecSurgeonAttrs == InitEmpty /\ [][NextSurgeonAttrs]_vars

\* Both dimensions over time: a procedure of surgeon S1 is
\* ingested, the surgeon's name is corrected, the robot is upgraded, the day
\* changes, either dimension load runs.
DimProcedures ==
  [procedure_id : {"P1"}, robot_id : {NULL}, surgeon_id : {"S1"},
   surgeon_name : {"A"}, start_time : {1}, status : {"completed"}]

IngestDimProcedure == \E data \in DimProcedures : IngestProcedure(data)
EditDimSurgeonName == \E name \in {"A", "B"} : RenameSurgeon("P1", name)
UpgradeDimRobot == \E version \in {"v1", "v2"} : UpgradeRobot("R1", version)
RunDimSurgeons == LoadDimensionSurgeons("none")
RunDimRobots == LoadDimensionRobots("none")

NextDims ==
  \/ IngestDimProcedure
  \/ EditDimSurgeonName
  \/ UpgradeDimRobot
  \/ AdvanceDay
  \/ RunDimSurgeons
  \/ RunDimRobots

SpecDims == InitFacts /\ [][NextDims]_vars

\* ------------------------------------------------------------- claims
\* C1: after any sequence of load_dimension_surgeons runs from an empty
\* dim_surgeons, every surgeon_id in dim_surgeons has exactly one current row.
C1_OneCurrentSurgeon ==
  \A d \in dim_surgeons :
    Cardinality({e \in dim_surgeons : e.surgeon_id = d.surgeon_id /\ e.is_current}) = 1

\* C3: a second load_dimension_surgeons run right after a successful one, over an
\* unchanged source on the same day, leaves dim_surgeons as the first run left it.
C3_SurgeonsRerunNoOp ==
  [][(/\ last.op = "load_dimension_surgeons" /\ last.status = "success"
      /\ last'.op = "load_dimension_surgeons" /\ last'.status = "success")
     => dim_surgeons' = dim_surgeons]_vars

\* dim_facilities holds at most one current row per facility_id.
FacilitiesOneCurrent ==
  \A f, g \in dim_facilities :
    (f.facility_id = g.facility_id /\ f.is_current /\ g.is_current) => f = g

\* C2 as stated: after any sequence of load_dimension_robots runs, whatever rows
\* dim_facilities holds, every robot_id in dim_robots has exactly one current row.
C2_OneCurrentRobotAnyFacilities ==
  \A d \in dim_robots :
    Cardinality({e \in dim_robots : e.robot_id = d.robot_id /\ e.is_current}) = 1

\* C2 amended: the same, when dim_facilities holds at most one current row per
\* facility_id.
C2_OneCurrentRobot == FacilitiesOneCurrent => C2_OneCurrentRobotAnyFacilities

\* C2 witness: a robot reloaded against a facility table with one current row:
\* a closed version and a current version with its facility key resolved.
C2_Witness ==
  /\ FacilitiesOneCurrent
  /\ \E d, e \in dim_robots :
       /\ d.robot_id = e.robot_id
       /\ ~d.is_current /\ d.expiration_date # NullNum
       /\ e.is_current /\ e.facility_key # NullKey

\* C4: a second load_dimension_robots run right after a successful one, over an
\* unchanged source, closes no row of dim_robots and inserts none.
C4_RobotsRerunNoOp ==
  [][(/\ last.op = "load_dimension_robots" /\ last.status = "success"
      /\ last'.op = "load_dimension_robots" /\ last'.status = "success")
     => dim_robots' = dim_robots]_vars

\* C5: no two rows of fact_procedures have the same procedure_id.
C5_UniqueProcedureId ==
  \A f, g \in fact_procedures : f.procedure_id = g.procedure_id => f = g

\* C6: in one load_fact_procedures merge, a staged row whose procedure_id is
\* already in fact_procedures inserts nothing and leaves the rows of that
\* procedure_id as they were, and every staged row whose procedure_id is not
\* in fact_procedures is inserted, with its staged values.
C6_FactDedup ==
  [][(last'.op = "load_fact_procedures" /\ last'.stage = "done")
     => \A i \in DOMAIN last'.staged :
          LET s == last'.staged[i]
              before == {f \in fact_procedures : f.procedure_id = s.procedure_id}
              after == {f \in fact_procedures' : f.procedure_id = s.procedure_id}
          IN IF before # {}
               THEN after = before
               ELSE \E f \in after : f.status = s.status /\ f.start_date_key = s.start_date_key
    ]_vars

\* C6 witness: a merge of two staged procedures that inserted one row: one was
\* already loaded, the other was new.
C6_Witness ==
  /\ last.op = "load_fact_procedures" /\ last.stage = "done"
  /\ Len(last.staged) = 2 /\ last.rowcount = 1
  /\ last.staged[1].procedure_id # last.staged[2].procedure_id
  /\ \A i \in 1..2 : \E f \in fact_procedures : f.procedure_id = last.staged[i].procedure_id

\* C7: each telemetry sample (procedure, sample_timestamp) appears at most once
\* in fact_procedure_telemetry.
C7_TelemetrySampleOnce ==
  \A m, n \in DOMAIN fact_procedure_telemetry :
    (/\ fact_procedure_telemetry[m].procedure_key = fact_procedure_telemetry[n].procedure_key
     /\ fact_procedure_telemetry[m].sample_timestamp = fact_procedure_telemetry[n].sample_timestamp)
    => m = n

\* C8: for every batch process_telemetry_files handled, the records staged plus
\* the rejections the program recorded are the records read from the files.
C8_TelemetryConservation ==
  last.op = "process_telemetry_files"
    => Len(last.staged) + last.rejected = Len(last.input)

WellFormed(record) ==
  /\ record.procedure_id # NULL
  /\ record.timestamp # NULL /\ record.timestamp # ""
  /\ ParsesIso(record.timestamp)

\* C9: in every batch, a record lacking timestamp is rejected by
\* transform_telemetry_record, is counted by the rejection counter and is not
\* staged, and every well-formed record of the batch is staged.
C9_MissingTimestampRejected ==
  last.op = "process_telemetry_files"
    => LET lacking == {i \in DOMAIN last.input : last.input[i].timestamp = NULL}
           formed == {i \in DOMAIN last.input : WellFormed(last.input[i])}
       IN /\ \A i \in lacking : TransformTelemetryRecord(last.input[i]) = <<>>
          /\ last.rejected >= Cardinality(lacking)
          /\ \A j \in DOMAIN last.staged : last.staged[j].sample_timestamp # NULL
          /\ \A i \in formed : \E j \in DOMAIN last.staged :
               /\ last.staged[j].procedure_id = last.input[i].procedure_id
               /\ last.staged[j].sample_timestamp = last.input[i].timestamp

\* C10: in every batch, a record without procedure_id, without timestamp or with
\* a timestamp that does not parse is rejected by transform_telemetry_record
\* and is not staged.
C10_RequiredFieldsRejected ==
  last.op = "process_telemetry_files"
    => /\ \A i \in DOMAIN last.input :
            ~WellFormed(last.input[i]) => TransformTelemetryRecord(last.input[i]) = <<>>
       /\ \A j \in DOMAIN last.staged : last.staged[j].procedure_id # NULL

\* The warehouse tables lambda_handler writes.
Warehouse == <<dim_surgeons, dim_robots, fact_procedures>>

\* C11: in a run with etl_type 'full', whenever the fact load is the load being
\* called or in progress, the surgeon and the robot loads have both returned,
\* and what they committed is what the dimension tables hold.
C11_DimensionsBeforeFacts ==
  (run.etl_type = "full" /\ (run.pc = "procedures" \/ load.name = "procedures"))
    => /\ {"surgeons", "robots"} \subseteq DOMAIN run.results.records_loaded
       /\ \A e \in DOMAIN run.committed : Target(e) = run.committed[e]

\* C11 witness: a full run whose fact load is about to extract, after both
\* dimension loads committed rows.
C11_Witness ==
  /\ run.etl_type = "full" /\ run.pc = "procedures"
  /\ load.name = "procedures" /\ load.pc = "extract"
  /\ {"surgeons", "robots"} \subseteq DOMAIN run.committed
  /\ run.results.records_loaded["surgeons"] > 0
  /\ run.results.records_loaded["robots"] > 0

\* C12: when a load failed during lambda_handler, the caller has received a
\* result with status 'failed', the error and the counts of the loads that
\* completed.
C12_FailureReturnsResult ==
  run.pc = "raised"
    => /\ run.returned # <<>>
       /\ run.returned[1].status = "failed"
       /\ run.returned[1].error # "none"
       /\ run.returned[1].records_loaded = run.results.records_loaded

\* C13: when a load failed during lambda_handler, every table a load committed
\* earlier in the same run holds what that load committed.
C13_EarlierCommitsKept ==
  run.pc = "raised" => \A e \in DOMAIN run.committed : Target(e) = run.committed[e]

\* C13 witness: the robot or the fact load failed in its merge after the
\* surgeon load of the same run had committed rows.
C13_Witness ==
  /\ run.pc = "raised"
  /\ load.name \in {"robots", "procedures"}
  /\ load.failed_at \in {"expire", "insert", "commit"}
  /\ "surgeons" \in DOMAIN run.committed
  /\ run.results.records_loaded["surgeons"] > 0
  /\ dim_surgeons # {}

\* C14: a load that fails after the bulk load, in the COPY, between the UPDATE
\* and the INSERT, in the INSERT or in the commit, leaves the warehouse tables
\* as they were, and a warehouse table changes only in a commit that succeeds,
\* to the table with every statement of the merge applied.
C14_MergeAtomic ==
  [][/\ (load.pc # "exited" /\ load'.pc = "exited"
         /\ load'.failed_at \in {"copy", "expire", "insert", "commit"})
        => Warehouse' = Warehouse
     /\ Warehouse' # Warehouse
        => (load.pc = "commit" /\ load'.failed_at = "none"
            /\ \A e \in Entities : e # load.name => Target(e)' = Target(e))
    ]_vars

\* C14 witness: the robot load failed between its UPDATE and its INSERT: the
\* transaction had closed a row that the table still holds as current.
C14_Witness ==
  /\ load.pc = "exited" /\ load.name = "robots" /\ load.failed_at = "insert"
  /\ \E d \in dim_robots :
       /\ d.is_current
       /\ [d EXCEPT !.is_current = FALSE, !.expiration_date = today - 1] \in load.work

\* The business attributes of a staged robot row differ from those of a
\* dim_robots row.
RobotAttrsDiffer(d, s) ==
  \/ d.software_version # s.software_version
  \/ d.install_date # s.install_date
  \/ d.total_procedures_count # s.total_procedures_count

\* C15: when a staged robot row differs in attributes from the current row of
\* its robot_id, the merge closes that row with expiration_date = run date
\* minus one and is_current = false, and inserts exactly one new current row
\* with no expiration_date whose effective_date is the run date.
C15_ChangedRowNewVersion ==
  [][(last'.op = "load_dimension_robots" /\ last'.stage = "done" /\ FacilitiesOneCurrent)
     => \A i \in DOMAIN last'.staged : \A d \in dim_robots :
          LET s == last'.staged[i]
              new == {e \in dim_robots' \ dim_robots : e.robot_id = s.robot_id /\ e.is_current}
          IN (d.is_current /\ d.robot_id = s.robot_id /\ RobotAttrsDiffer(d, s))
             => /\ [d EXCEPT !.is_current = FALSE, !.expiration_date = today - 1] \in dim_robots'
                /\ Cardinality(new) = 1
                /\ \A e \in new : e.expiration_date = NullNum /\ e.effective_date = today
    ]_vars

\* The business attributes of a staged surgeon row differ from those of a
\* dim_surgeons row.
SurgeonAttrsDiffer(d, s) ==
  \/ d.surgeon_name # s.surgeon_name
  \/ d.specialization # s.specialization
  \/ d.years_experience # s.years_experience
  \/ d.certification_level # s.certification_level

\* C16: in load_dimension_surgeons, with one staged row per surgeon_id, a
\* difference in surgeon_name, specialization, years_experience or
\* certification_level between the staged row and the current row of the same
\* surgeon_id closes the current row and inserts a new current version with the
\* staged attributes.
C16_AnyAttributeNewVersion ==
  [][(/\ last'.op = "load_dimension_surgeons" /\ last'.stage = "done"
      /\ \A i, j \in DOMAIN last'.staged :
           last'.staged[i].surgeon_id = last'.staged[j].surgeon_id => i = j)
     => \A i \in DOMAIN last'.staged : \A d \in dim_surgeons :
          LET s == last'.staged[i]
          IN (d.is_current /\ d.surgeon_id = s.surgeon_id /\ SurgeonAttrsDiffer(d, s))
             => /\ [d EXCEPT !.is_current = FALSE, !.expiration_date = today - 1] \in dim_surgeons'
                /\ \E e \in dim_surgeons' \ dim_surgeons :
                     /\ e.surgeon_id = s.surgeon_id /\ e.is_current
                     /\ ~SurgeonAttrsDiffer(e, s)
    ]_vars

\* C17: every row of dim_surgeons and dim_robots that has both dates set has
\* effective_date <= expiration_date.
C17_DatesOrdered ==
  \A d \in dim_surgeons \cup dim_robots :
    (d.effective_date # NullNum /\ d.expiration_date # NullNum)
      => d.effective_date <= d.expiration_date

\* C18: in one load_fact_procedures merge, a staged procedure not yet in
\* fact_procedures is inserted whatever its dimension keys resolve to, and the
\* surrogate key of a robot, surgeon or facility without a current dimension
\* row is null in the inserted row.
C18_UnresolvedKeyNull ==
  [][(last'.op = "load_fact_procedures" /\ last'.stage = "done")
     => \A i \in DOMAIN last'.staged :
          LET s == last'.staged[i]
              rows == {f \in fact_procedures' : f.procedure_id = s.procedure_id}
          IN (~ \E f \in fact_procedures : f.procedure_id = s.procedure_id)
             => /\ rows # {}
                /\ (~ \E d \in dim_robots : d.robot_id = s.robot_id /\ d.is_current)
                     => \A f \in rows : f.robot_key = NullKey
                /\ (~ \E d \in dim_surgeons : d.surgeon_id = s.surgeon_id /\ d.is_current)
                     => \A f \in rows : f.surgeon_key = NullKey
                /\ (~ \E d \in dim_facilities : d.facility_id = s.facility_id /\ d.is_current)
                     => \A f \in rows : f.facility_key = NullKey
    ]_vars

\* C18 witness: a fact load inserted a procedure whose robot and surgeon have
\* no current dimension row and whose facility has one.
C18_Witness ==
  /\ last.op = "load_fact_procedures" /\ last.stage = "done" /\ last.rowcount > 0
  /\ \E i \in DOMAIN last.staged : \E f \in fact_procedures :
       /\ f.procedure_id = last.staged[i].procedure_id
       /\ last.staged[i].robot_id # NULL /\ f.robot_key = NullKey
       /\ last.staged[i].surgeon_id # NULL /\ f.surgeon_key = NullKey
       /\ f.facility_key # NullKey
       /\ dim_surgeons = {}

\* C19: when a load operation has exited, by return or by exception, no
\* connection it opened is still open.
C19_ConnectionsClosed ==
  load.pc = "exited" => (load.rds_conn # "open" /\ load.rs_conn # "open")

\* C20: the surgeon extraction stages exactly one row per surgeon_id of the
\* source.
C20_OneStagedRowPerSurgeon ==
  (last.op = "load_dimension_surgeons" /\ last.stage = "done")
    => \A sid \in {p.surgeon_id : p \in surgical_procedures} \ {NULL} :
         Cardinality({i \in DOMAIN last.staged : last.staged[i].surgeon_id = sid}) = 1

\* The procedure_ids the fact extraction returns for the window [a, b) over
\* the operational store as it is.
ExtractedIds(a, b) ==
  {r.procedure_id : r \in Range(ExtractProcedures(surgical_procedures, surgical_robots, a, b))}

\* C21: over the operational store as it is, the fact extraction with window
\* [a, b) returns exactly the procedures with a <= start_time < b, and the
\* extractions over adjacent windows [a, b) and [b, c) return together every
\* procedure with start_time in [a, c) and none in common.
C21_HalfOpenWindow ==
  /\ \A a, b \in 1..(MaxDay + 1) :
       ExtractedIds(a, b) =
         {p.procedure_id : p \in {q \in surgical_procedures : a <= q.start_time /\ q.start_time < b}}
  /\ \A a \in 1..(MaxDay + 1) : \A b \in a..(MaxDay + 1) : \A c \in b..(MaxDay + 1) :
       /\ ExtractedIds(a, b) \cup ExtractedIds(b, c) = ExtractedIds(a, c)
       /\ ExtractedIds(a, b) \cap ExtractedIds(b, c) = {}

\* C21 witness: a fact load staged the procedure that started on day 1 and not
\* the one that started on day 2, the end of its window.
C21_Witness ==
  /\ last.op = "load_fact_procedures" /\ last.stage = "done"
  /\ \E p, q \in surgical_procedures :
       /\ p.start_time = 1 /\ q.start_time = 2
       /\ \E i \in DOMAIN last.staged : last.staged[i].procedure_id = p.procedure_id
       /\ \A i \in DOMAIN last.staged : last.staged[i].procedure_id # q.procedure_id

\* C22: a row of dim_surgeons or dim_robots that is closed (is_current = false,
\* expiration_date set) is in the table, with every column as it was, after
\* any step.
C22_ClosedRowsImmutable ==
  [][/\ \A d \in dim_surgeons :
          (~d.is_current /\ d.expiration_date # NullNum) => d \in dim_surgeons'
     /\ \A d \in dim_robots :
          (~d.is_current /\ d.expiration_date # NullNum) => d \in dim_robots'
    ]_vars

\* C22 witness: both dimensions hold a closed row, and dim_robots holds a row
\* closed on an earlier day next to one closed by a run of today.
C22_Witness ==
  /\ \E d \in dim_surgeons : ~d.is_current /\ d.expiration_date # NullNum
  /\ \E d, e \in dim_robots :
       /\ ~d.is_current /\ d.expiration_date # NullNum /\ d.expiration_date < today - 1
       /\ ~e.is_current /\ e.expiration_date = today - 1

\* C23: when the COPY of a load failed, the load has exited by exception with
\* no statement of its merge executed, nothing committed and nothing counted
\* for its entity, and its table is as the load found it.
C23_CopyFailureSkipsMerge ==
  load.failed_at = "copy"
    => /\ load.pc = "exited" /\ run.pc = "raised"
       /\ load.staging = <<>> /\ load.rowcount = 0
       /\ load.work = Target(load.name)
       /\ load.name \notin DOMAIN run.committed
       /\ load.name \notin DOMAIN run.results.records_loaded

\* C23 witness: the COPY of the robot load failed over extracted rows while
\* dim_robots held a current row for the merge to close.
C23_Witness ==
  /\ load.failed_at = "copy" /\ load.name = "robots" /\ load.data # <<>>
  /\ \E d \in dim_robots : d.is_current

C25_TimestampKey ==
  last.op = "process_telemetry_files"
    => /\ \A j \in DOMAIN last.staged :
            LET r == last.staged[j]
            IN /\ r.timestamp_key = ClockOf[r.sample_timestamp].hour * 10000
                                    + ClockOf[r.sample_timestamp].minute * 100
               /\ r.timestamp_key \in 0..235900
               /\ r.timestamp_key % 100 = 0
       /\ \A j, k \in DOMAIN last.staged :
            last.staged[j].sample_timestamp = last.staged[k].sample_timestamp
              => last.staged[j].timestamp_key = last.staged[k].timestamp_key

\* C25 witness: a batch staged a record of 23:59 and a record of 10:30.
C25_Witness ==
  /\ last.op = "process_telemetry_files" /\ last.stage = "done"
  /\ \E j, k \in DOMAIN last.staged :
       last.staged[j].timestamp_key = 235900 /\ last.staged[k].timestamp_key = 103000

\* C30: a telemetry run that loads reports the number of transformed records
\* staged; every row it appends belongs to a procedure of fact_procedures and
\* to a sample fact_procedure_telemetry did not hold, so a staged sample
\* without a fact row or already loaded is counted and not inserted; a run
\* right after a run over the same records reports the same count and inserts
\* nothing.
C30_CountsStagedRecords ==
  [][(last'.op = "process_telemetry_files" /\ last'.stage = "done")
       => /\ last'.status = "success"
          /\ last'.rowcount = Len(last'.staged)
          /\ Len(fact_procedure_telemetry') - Len(fact_procedure_telemetry) = last'.inserted
          /\ SubSeq(fact_procedure_telemetry', 1, Len(fact_procedure_telemetry))
               = fact_procedure_telemetry
          /\ \A n \in (Len(fact_procedure_telemetry) + 1)..Len(fact_procedure_telemetry') :
               LET row == fact_procedure_telemetry'[n]
               IN /\ \E f \in fact_procedures, i \in DOMAIN last'.staged :
                       /\ f.procedure_key = row.procedure_key
                       /\ last'.staged[i].procedure_id = f.procedure_id
                       /\ last'.staged[i].sample_timestamp = row.sample_timestamp
                  /\ ~ \E m \in DOMAIN fact_procedure_telemetry :
                         /\ fact_procedure_telemetry[m].procedure_key = row.procedure_key
                         /\ fact_procedure_telemetry[m].sample_timestamp = row.sample_timestamp
          /\ (last.op = "process_telemetry_files" /\ last.stage = "done"
                /\ last.staged = last'.staged)
               => /\ last'.rowcount = last.rowcount
                  /\ last'.inserted = 0
                  /\ fact_procedure_telemetry' = fact_procedure_telemetry]_vars

\* C30 witness: a run counted two staged records, one of them without a
\* procedure in fact_procedures, and inserted no row into a table that
\* already holds the other sample.
C30_Witness ==
  /\ last.op = "process_telemetry_files" /\ last.stage = "done"
  /\ last.rowcount = 2 /\ last.inserted = 0
  /\ \E j \in DOMAIN last.staged : last.staged[j].procedure_id = NULL
  /\ \E j \in DOMAIN last.staged, n \in DOMAIN fact_procedure_telemetry :
       /\ last.staged[j].procedure_id = "P1"
       /\ fact_procedure_telemetry[n].sample_timestamp = last.staged[j].sample_timestamp

\* C26: after a successful load_dimension_surgeons run that staged one row per
\* surgeon_id, every staged surgeon_id has a current row in dim_surgeons with
\* the staged surgeon_name and specialization, a null name included.
C26_StagedValuesCurrent ==
  (/\ last.op = "load_dimension_surgeons" /\ last.stage = "done"
   /\ \A i, j \in DOMAIN last.staged :
        last.staged[i].surgeon_id = last.staged[j].surgeon_id => i = j)
    => \A i \in DOMAIN last.staged :
         \E d \in dim_surgeons :
           /\ d.is_current
           /\ d.surgeon_id = last.staged[i].surgeon_id
           /\ d.surgeon_name = last.staged[i].surgeon_name
           /\ d.specialization = last.staged[i].specialization

\* The entities lambda_handler calls after the entity `name`.
LaterEntities(name) ==
  IF name = "surgeons" THEN {"robots", "procedures"}
  ELSE IF name = "robots" THEN {"procedures"} ELSE {}

\* C27: once an entity load of an invocation has raised, the invocation has
\* raised too, no entity called after it has a count or a commit, and the next
\* step that touches the load state is a new invocation: no later load of the
\* same invocation starts.
C27_FailureStopsLaterLoads ==
  [][load.failed_at # "none"
       => /\ run.pc = "raised"
          /\ load.pc = "exited"
          /\ LaterEntities(load.name) \cap DOMAIN run.results.records_loaded = {}
          /\ LaterEntities(load.name) \cap DOMAIN run.committed = {}
          /\ \/ load' = load /\ run' = run
             \/ /\ load' = NoLoad
                /\ run'.committed = <<>>
                /\ run'.returned = <<>>
                /\ run'.results.records_loaded = <<>>]_vars

\* C27 witness: in a 'full' invocation the surgeon load raised at its COPY.
C27_Witness ==
  /\ run.etl_type = "full" /\ run.pc = "raised"
  /\ load.name = "surgeons" /\ load.failed_at = "copy"

\* C28: a dimension load runs only under etl_type 'full' or 'dimensions', the
\* fact load only under 'full' or 'procedures'; an invocation with any other
\* etl_type opens no connection, commits nothing and returns status 'success'
\* with an empty records_loaded.
C28_EtlTypeSelectsLoads ==
  /\ (load.name \in {"surgeons", "robots"} \/ run.pc \in {"surgeons", "robots"})
       => run.etl_type \in {"full", "dimensions"}
  /\ (load.name = "procedures" \/ run.pc = "procedures")
       => run.etl_type \in {"full", "procedures"}
  /\ (run.pc # "idle" /\ run.etl_type \notin {"full", "dimensions", "procedures"})
       => /\ load = NoLoad
          /\ run.committed = <<>>
          /\ run.pc \in {"return", "returned"}
          /\ run.results.status = "success"
          /\ run.results.records_loaded = <<>>
          /\ run.pc = "returned"
               => /\ Len(run.returned) = 1
                  /\ run.returned[1].status = "success"
                  /\ run.returned[1].records_loaded = <<>>

\* C28 witness: an invocation with an etl_type lambda_handler does not know has
\* returned, with procedures waiting in the operational store.
C28_Witness ==
  /\ run.pc = "returned" /\ run.etl_type = "none"
  /\ surgical_procedures # {}

\* The number of the last key of a non-empty sequence of keys in ascending order.
LastKeyNumber(files) == files[Len(files)].n

\* C29: the files a process_telemetry_files run reads are '.json' keys of the
\* raw bucket in listing order, at most BatchMaxFiles of them, each with
\* fewer than ListMaxKeys keys and fewer than BatchMaxFiles '.json' keys
\* before it; a run right after a run over the unchanged bucket reads the same
\* files; every record the run takes in and every row it appends comes from a
\* file it read.
C29_SameFilesWithinCaps ==
  [][last'.op = "process_telemetry_files"
       => LET files == last'.files_read
              read == Range(files)
              objects == {o \in raw_bucket : o.key \in read}
          IN /\ Len(files) <= BatchMaxFiles
             /\ \A i \in DOMAIN files :
                  /\ files[i].json
                  /\ i > 1 => files[i - 1].n < files[i].n
             /\ read \subseteq {o.key : o \in raw_bucket}
             /\ files # <<>>
                  => /\ Cardinality({o \in raw_bucket : o.key.n < LastKeyNumber(files)})
                          < ListMaxKeys
                     /\ Cardinality({o \in raw_bucket :
                                       o.key.json /\ o.key.n < LastKeyNumber(files)})
                          < BatchMaxFiles
             /\ (last.op = "process_telemetry_files" /\ raw_bucket' = raw_bucket)
                  => last'.files_read = last.files_read
             /\ \A i \in DOMAIN last'.input :
                  \E o \in objects : last'.input[i] \in Range(o.body.records)
             /\ \A n \in (Len(fact_procedure_telemetry) + 1)..Len(fact_procedure_telemetry') :
                  \E o \in objects :
                    \E r \in Range(o.body.records) :
                      /\ r.timestamp = fact_procedure_telemetry'[n].sample_timestamp
                      /\ r.arm_position # <<>>
                      /\ r.arm_position[1].x = fact_procedure_telemetry'[n].arm_position_x]_vars

\* C29 witness: the bucket holds more than ListMaxKeys keys and 101 '.json'
\* keys among the first ListMaxKeys; a run read BatchMaxFiles files and loaded
\* the sample of the new first key; the 101st '.json' key and the '.json' key
\* past the listing hold a record, were not read, and the sample of the key
\* past the listing is in no row.
C29_Witness ==
  /\ last.op = "process_telemetry_files" /\ last.stage = "done"
  /\ Len(last.files_read) = BatchMaxFiles
  /\ Cardinality(raw_bucket) > ListMaxKeys
  /\ \A k \in {992, 1002} :
       /\ \E o \in raw_bucket : o.key.n = k /\ o.body.records # <<>>
       /\ \A i \in DOMAIN last.files_read : last.files_read[i].n # k
  /\ \E n \in DOMAIN fact_procedure_telemetry : fact_procedure_telemetry[n].arm_position_x = 0
  /\ \A n \in DOMAIN fact_procedure_telemetry :
       fact_procedure_telemetry[n].arm_position_x # 1002

\* C29 second witness state: only the listing cuts the batch.  A run read all
\* 99 '.json' keys listed, the last of them included, and not the '.json' key
\* past the first ListMaxKeys keys, which holds a record.
C29_ListingCutWitness ==
  /\ last.op = "process_telemetry_files" /\ last.stage = "done"
  /\ Len(last.files_read) = BatchMaxFiles - 1
  /\ \E n \in DOMAIN fact_procedure_telemetry : fact_procedure_telemetry[n].arm_position_x = 992
  /\ \E o \in raw_bucket : o.key.n = 1002 /\ o.body.records # <<>>
  /\ \A i \in DOMAIN last.files_read : last.files_read[i].n # 1002

====
